---- MODULE Spec2Model ----
(***************************************************************************)
(* Model of pyroboplan.planning.rrt: the RRTPlanner session (reset, plan), *)
(* the growth loop of plan, extend_or_connect, add_node_to_tree with its   *)
(* RRT* rewiring loop, and extract_path_from_trees.                        *)
(*                                                                         *)
(* The configuration space is one-dimensional with integer joint values,   *)
(* so that the norm of line 211 and the configuration distance are exact.  *)
(* The points of a discretized segment are rationals; they are kept as     *)
(* numerators over a common denominator.  The collision model is a set of  *)
(* closed intervals of joint values that are in collision.                 *)
(***************************************************************************)
EXTENDS Integers, Sequences, FiniteSets, TLC

\* ---------------------------------------------------------------- bounds

\* Joint values range over 0..QMax.
QMax == 6

\* The planning-time budget handed to plan, in clock units.
MaxPlanningTime == 1

\* The largest advance of the wall clock during one growth iteration.
MaxTick == 1

\* --------------------------------------------------------- program values

\* Python's None, for an absent node reference or an absent configuration.
None == -1

\* np.inf, the default of max_rewire_dist: above every distance of the model.
Infinity == 1000000

\* The value of 0/0 in q_increment (numpy yields nan and a warning).
NaN == "nan"

\* A latest_path or return value of None, and one that is a list.
NonePath == [is_none |-> TRUE, q |-> <<>>]

ListPath(qs) == [is_none |-> FALSE, q |-> qs]

\* A freshly constructed Graph().
EmptyGraph == [nodes |-> <<>>, edges |-> {}]

Configurations == 0..QMax

\* The collision models a planner is constructed with, each a set of closed
\* intervals <<lo, hi>> of joint values in collision: free space, an obstacle in
\* the middle of the range, and an obstacle right before its upper end.
CollisionModels == {{}, {<<3, QMax - 3>>}, {<<QMax - 1, QMax - 1>>}}

\* The option bundles plan is called with: max_rewire_dist is finite in the
\* bundles that rewire after a connect, and at its default of line 43 in the
\* others.
OptionBundles ==
    {o \in [max_angle_step : {1, 4},
            max_connection_dist : {2},
            rrt_connect : BOOLEAN,
            bidirectional_rrt : BOOLEAN,
            rrt_star : BOOLEAN,
            max_rewire_dist : {2, Infinity},
            max_planning_time : {MaxPlanningTime},
            goal_biasing_probability : {50}] :
        (o.max_rewire_dist = 2) <=> (o.rrt_star /\ o.rrt_connect)}

\* The start and goal configurations plan is called with.
StartConfigs == {0, 3}

GoalConfigs == {0, 3, QMax}

\* np.random.random(), in percent.
RandomDraws == {0, 99}

VARIABLES
    collision_model,          \* self.collision_model
    latest_path,              \* self.latest_path
    nodes,                    \* the Node objects of the session, by reference
    start_tree,               \* self.start_tree
    goal_tree,                \* self.goal_tree
    options,                  \* self.options
    pc,                       \* position inside plan ("idle": no call running)
    q_start,                  \* plan's locals
    q_goal,
    goal_found,
    latest_start_tree_node,
    latest_goal_tree_node,
    start_tree_phase,
    elapsed,                  \* time.time() - t_start
    new_node,
    nearest_node_in_other_tree,
    call,                     \* the running add_node_to_tree call
    result                    \* what the last finished plan call returned

vars == <<collision_model, latest_path, nodes, start_tree, goal_tree, options, pc,
          q_start, q_goal, goal_found, latest_start_tree_node,
          latest_goal_tree_node, start_tree_phase, elapsed, new_node,
          nearest_node_in_other_tree, call, result>>

\* ------------------------------------------------------ external oracles

Abs(x) == IF x < 0 THEN -x ELSE x

CeilDiv(a, b) == (a + b - 1) \div b

\* configuration_distance(q_a, q_b): the norm of the difference.
configuration_distance(q_a, q_b) == Abs(q_b - q_a)

\* check_collisions_at_state(model, collision_model, q).
check_collisions_at_state(cm, q) == \E o \in cm : o[1] <= q /\ q <= o[2]

\* discretize_joint_space_path(q_from, q_to, max_angle_step): the evenly spaced
\* points from q_from to q_to inclusive, no farther apart than the step.  Point i
\* is num[i] / den.
discretize_joint_space_path(q_from, q_to, max_angle_step) ==
    LET n == CeilDiv(configuration_distance(q_from, q_to), max_angle_step)
    IN  IF n = 0
        THEN [den |-> 1, num |-> <<q_from>>]
        ELSE [den |-> n, num |-> [i \in 1..(n + 1) |-> q_from * n + (i - 1) * (q_to - q_from)]]

\* check_collisions_along_path(model, collision_model, path): some point of the
\* path is in collision.
check_collisions_along_path(cm, path) ==
    \E i \in 1..Len(path.num) :
        \E o \in cm : o[1] * path.den <= path.num[i] /\ path.num[i] <= o[2] * path.den

\* The discretized segment from q_a to q_b is in collision.
SegmentInCollision(cm, q_a, q_b, max_angle_step) ==
    check_collisions_along_path(cm, discretize_joint_space_path(q_a, q_b, max_angle_step))

\* ------------------------------------------------------------ Node, Graph

\* Node(q, parent, cost).
Node(q, parent, cost) == [q |-> q, parent |-> parent, cost |-> cost]

\* Edge(nodeA, nodeB, cost) as Graph.add_edge builds it: the cost is the
\* configuration distance between the two nodes.
Edge(ns, nodeA, nodeB) ==
    [nodeA |-> nodeA, nodeB |-> nodeB,
     cost |-> configuration_distance(ns[nodeA].q, ns[nodeB].q)]

\* Graph.add_node(node).
add_node(tree, node) == [tree EXCEPT !.nodes = Append(@, node)]

\* Graph.add_edge(nodeA, nodeB); the edge it returns is Edge(ns, nodeA, nodeB).
add_edge(tree, ns, nodeA, nodeB) == [tree EXCEPT !.edges = @ \cup {Edge(ns, nodeA, nodeB)}]

\* Graph.remove_edge(edge).
remove_edge(tree, edge) == [tree EXCEPT !.edges = @ \ {edge}]

\* Graph.get_nearest_node(q): a linear scan in which the first node found at the
\* least distance wins.
get_nearest_node(tree, ns, q) ==
    LET d(i) == configuration_distance(q, ns[tree.nodes[i]].q)
        best == CHOOSE i \in 1..Len(tree.nodes) :
                    /\ \A j \in 1..Len(tree.nodes) : d(i) <= d(j)
                    /\ \A j \in 1..(i - 1) : d(j) > d(i)
    IN  tree.nodes[best]

\* ------------------------------------------------------ extend_or_connect

\* The while loop of extend_or_connect (lines 216-242) from the position q_cur
\* with the result so far q_out; its value is the q_out of line 244.
RECURSIVE ExtendLoop(_, _, _, _, _, _)
ExtendLoop(cm, q_cur, q_out, q_sample, q_increment, opts) ==
    LET final == ~(configuration_distance(q_cur, q_sample) > opts.max_connection_dist)
        q_extend == IF final THEN q_sample ELSE q_cur + q_increment
        q_extend_in_collision == check_collisions_at_state(cm, q_extend)
        path_to_q_extend_in_collision ==
            SegmentInCollision(cm, q_cur, q_extend, opts.max_angle_step)
        accepted == ~q_extend_in_collision /\ ~path_to_q_extend_in_collision
        terminated == final \/ ~accepted \/ ~opts.rrt_connect
    IN  IF accepted
        THEN IF terminated
             THEN q_extend
             ELSE ExtendLoop(cm, q_extend, q_extend, q_sample, q_increment, opts)
        ELSE q_out

\* The passes of the while loop of extend_or_connect (lines 216-242) from the
\* position q_cur, in order: for each pass its q_cur, its q_extend, whether the
\* pass was the final one (line 223) and whether q_extend was accepted (line
\* 234).  passes_left bounds the passes recorded; a loop still running after
\* them leaves a trace whose last pass has not terminated.
RECURSIVE ExtendPasses(_, _, _, _, _, _)
ExtendPasses(cm, q_cur, q_sample, q_increment, opts, passes_left) ==
    LET final == ~(configuration_distance(q_cur, q_sample) > opts.max_connection_dist)
        q_extend == IF final THEN q_sample ELSE q_cur + q_increment
        accepted == /\ ~check_collisions_at_state(cm, q_extend)
                    /\ ~SegmentInCollision(cm, q_cur, q_extend, opts.max_angle_step)
        terminated == final \/ ~accepted \/ ~opts.rrt_connect
        pass == [q_cur |-> q_cur, q_extend |-> q_extend, final |-> final,
                 accepted |-> accepted, terminated |-> terminated]
    IN  IF terminated \/ passes_left <= 1
        THEN <<pass>>
        ELSE <<pass>> \o ExtendPasses(cm, q_extend, q_sample, q_increment, opts,
                                      passes_left - 1)

\* Lines 210-211 with a step of half the length.
QIncrementHalfStep(parent_q, q_sample, opts) ==
    LET q_diff == q_sample - parent_q
        norm == Abs(q_diff)
    IN  IF norm = 0
        THEN NaN
        ELSE (opts.max_connection_dist * q_diff) \div (2 * norm)

\* Lines 210-211: q_increment, the step of length max_connection_dist from the
\* parent towards the sample.  The division by the norm is done whatever the
\* norm is.
QIncrement(parent_q, q_sample, opts) ==
    LET q_diff == q_sample - parent_q
        norm == Abs(q_diff)
    IN  IF norm = 0
        THEN NaN
        ELSE (opts.max_connection_dist * q_diff) \div norm

\* extend_or_connect with the test of line 241 passing whatever rrt_connect is.
extend_once(cm, parent_q, q_sample, opts) ==
    ExtendLoop(cm, parent_q, None, q_sample, QIncrement(parent_q, q_sample, opts),
               [opts EXCEPT !.rrt_connect = FALSE])

\* extend_or_connect(parent_node, q_sample, options), given parent_node.q.
extend_or_connect(cm, parent_q, q_sample, opts) ==
    ExtendLoop(cm, parent_q, None, q_sample, QIncrement(parent_q, q_sample, opts), opts)

\* ------------------------------------------------- extract_path_from_trees

\* One of the two parent walks of extract_path_from_trees: the configurations
\* from cur_node up to the root, cur_node first.
RECURSIVE ParentWalk(_, _)
ParentWalk(ns, cur_node) ==
    IF cur_node = None
    THEN <<>>
    ELSE <<ns[cur_node].q>> \o ParentWalk(ns, ns[cur_node].parent)

Reverse(s) == [i \in 1..Len(s) |-> s[Len(s) + 1 - i]]

\* extract_path_from_trees without the reversal of line 272.
extract_path_without_reverse(ns, start_tree_final_node, goal_tree_final_node) ==
    ParentWalk(ns, start_tree_final_node) \o ParentWalk(ns, goal_tree_final_node)

\* extract_path_from_trees with the walk of the goal tree starting at the parent
\* of goal_tree_final_node.
extract_path_once_through_bridge(ns, start_tree_final_node, goal_tree_final_node) ==
    Reverse(ParentWalk(ns, start_tree_final_node))
        \o Tail(ParentWalk(ns, goal_tree_final_node))

\* extract_path_from_trees(start_tree_final_node, goal_tree_final_node).
extract_path_from_trees(ns, start_tree_final_node, goal_tree_final_node) ==
    Reverse(ParentWalk(ns, start_tree_final_node)) \o ParentWalk(ns, goal_tree_final_node)

\* ------------------------------------------------------------- the session

\* No add_node_to_tree call is running.
NoCall == [new_node |-> None, parent_node |-> None, edge |-> None,
           min_cost |-> None, idx |-> 0, ret |-> "none"]

\* The tree being grown (line 140) and the other one (line 141).
ActiveTree == IF start_tree_phase THEN start_tree ELSE goal_tree

OtherTree == IF start_tree_phase THEN goal_tree ELSE start_tree

\* Line 135 with >= in place of >.
TimedOutOnDeadline == elapsed >= options.max_planning_time

\* The deadline test of line 135.
TimedOut == elapsed > options.max_planning_time

Init ==
    /\ collision_model \in CollisionModels
    /\ latest_path = NonePath
    /\ nodes = <<>>
    /\ start_tree = EmptyGraph
    /\ goal_tree = EmptyGraph
    /\ options = None
    /\ pc = "idle"
    /\ q_start = None
    /\ q_goal = None
    /\ goal_found = FALSE
    /\ latest_start_tree_node = None
    /\ latest_goal_tree_node = None
    /\ start_tree_phase = TRUE
    /\ elapsed = 0
    /\ new_node = None
    /\ nearest_node_in_other_tree = None
    /\ call = NoCall
    /\ result = NonePath

\* The locals of plan other than its arguments, once the call has returned.
FrameGone ==
    /\ goal_found' = FALSE
    /\ latest_start_tree_node' = None
    /\ latest_goal_tree_node' = None
    /\ start_tree_phase' = TRUE
    /\ elapsed' = 0
    /\ new_node' = None
    /\ nearest_node_in_other_tree' = None
    /\ call' = NoCall

\* The planning data structures of the session.
Session == [latest_path |-> latest_path, nodes |-> nodes,
            start_tree |-> start_tree, goal_tree |-> goal_tree]

\* reset() without the assignment of line 84.
resetKeepingPath(s) == [latest_path |-> s.latest_path, nodes |-> <<>>,
                        start_tree |-> EmptyGraph, goal_tree |-> EmptyGraph]

\* reset(): lines 84-86, from the session s.  The nodes of the dropped graphs
\* are unreachable.
reset(s) == [latest_path |-> NonePath, nodes |-> <<>>,
             start_tree |-> EmptyGraph, goal_tree |-> EmptyGraph]

\* A caller's reset() between plan calls.
Reset ==
    /\ pc = "idle"
    /\ latest_path' = reset(Session).latest_path
    /\ nodes' = reset(Session).nodes
    /\ start_tree' = reset(Session).start_tree
    /\ goal_tree' = reset(Session).goal_tree
    /\ UNCHANGED <<collision_model, options, pc, q_start, q_goal, goal_found,
                   latest_start_tree_node, latest_goal_tree_node, start_tree_phase,
                   elapsed, new_node, nearest_node_in_other_tree, call, result>>

\* Lines 115-120 without the check of the goal configuration.
EndpointInCollisionStartOnly(cm, qs, qg) == check_collisions_at_state(cm, qs)

\* Lines 115-120: one of the two configurations is in collision.
EndpointInCollision(cm, qs, qg) ==
    check_collisions_at_state(cm, qs) \/ check_collisions_at_state(cm, qg)

\* Lines 123-130 with the test of line 126 inverted.
DirectlyConnectedInverted(cm, qs, qg, opts) ==
    SegmentInCollision(cm, qs, qg, opts.max_angle_step)

\* Lines 123-130: the discretized segment from start to goal is collision-free.
DirectlyConnected(cm, qs, qg, opts) ==
    ~SegmentInCollision(cm, qs, qg, opts.max_angle_step)

\* plan, lines 101-132: reset, the two roots, the collision checks of the two
\* configurations and the check of the direct connection.
PlanEntry(qs, qg, opts) ==
    LET session == reset(Session)
        start_node == Len(session.nodes) + 1
        goal_node == Len(session.nodes) + 2
    IN  /\ pc = "idle"
        /\ options' = opts
        /\ q_start' = qs
        /\ q_goal' = qg
        /\ nodes' = session.nodes \o <<Node(qs, None, 0), Node(qg, None, 0)>>
        /\ start_tree' = add_node(session.start_tree, start_node)
        /\ goal_tree' = add_node(session.goal_tree, goal_node)
        /\ latest_path' = session.latest_path
        /\ IF EndpointInCollision(collision_model, qs, qg)
           THEN /\ result' = NonePath
                /\ pc' = "idle"
                /\ FrameGone
           ELSE /\ goal_found' = DirectlyConnected(collision_model, qs, qg, opts)
                /\ latest_start_tree_node' = start_node
                /\ latest_goal_tree_node' = goal_node
                /\ start_tree_phase' = TRUE
                /\ elapsed' = 0
                /\ pc' = "loop"
                /\ UNCHANGED <<new_node, nearest_node_in_other_tree, call, result>>
        /\ UNCHANGED collision_model

Plan == \E qs \in StartConfigs, qg \in GoalConfigs, opts \in OptionBundles : PlanEntry(qs, qg, opts)

\* ------------------------------------------------------- add_node_to_tree

\* Line 293: the cost of a new node under its parent.
NewNodeCost(parent_cost, edge_cost) == parent_cost + edge_cost

\* Lines 300-314 with the test of line 308 passing on equal cost.
RewireAcceptedOnTie(cm, ns, c, other_node, opts) ==
    LET q_new == ns[c.new_node].q
        new_distance == configuration_distance(ns[other_node].q, q_new)
        new_cost == ns[other_node].cost + new_distance
    IN  /\ ~(other_node = c.new_node \/ other_node = c.parent_node)
        /\ ~(new_distance > opts.max_rewire_dist)
        /\ new_cost <= c.min_cost
        /\ ~SegmentInCollision(cm, q_new, ns[other_node].q, opts.max_angle_step)

\* Lines 300-314: other_node passes every test of the rewiring loop, so that
\* lines 315-319 run for it.
RewireAccepted(cm, ns, c, other_node, opts) ==
    LET q_new == ns[c.new_node].q
        new_distance == configuration_distance(ns[other_node].q, q_new)
        new_cost == ns[other_node].cost + new_distance
    IN  /\ ~(other_node = c.new_node \/ other_node = c.parent_node)
        /\ ~(new_distance > opts.max_rewire_dist)
        /\ new_cost < c.min_cost
        /\ ~SegmentInCollision(cm, q_new, ns[other_node].q, opts.max_angle_step)

\* Lines 315-316 without the cost assignment of line 316.
ReparentKeepingCost(ns, node, other_node, new_cost) ==
    [ns EXCEPT ![node].parent = other_node]

\* Lines 315-316 re-parenting other_node to the new node instead.
ReparentOtherNode(ns, node, other_node, new_cost) ==
    [ns EXCEPT ![other_node].parent = node, ![other_node].cost = new_cost]

\* Lines 315-316: the node new_node re-parented to other_node at cost new_cost.
Reparent(ns, node, other_node, new_cost) ==
    [ns EXCEPT ![node].parent = other_node, ![node].cost = new_cost]

\* Lines 317-318 without the remove_edge of line 317.
ReplaceEdgeKeepingOld(tree, ns, edge, other_node, node) ==
    add_edge(tree, ns, other_node, node)

\* Lines 317-318: the edge of the call replaced by the edge from other_node.
ReplaceEdge(tree, ns, edge, other_node, node) ==
    add_edge(remove_edge(tree, edge), ns, other_node, node)

\* The assignment to the tree object that plan calls `tree`.
SetActiveTree(t) ==
    IF start_tree_phase
    THEN start_tree' = t /\ goal_tree' = goal_tree
    ELSE goal_tree' = t /\ start_tree' = start_tree

\* add_node_to_tree(tree, q_new, parent_node, options), lines 290-297: the node,
\* its edge and its cost; the rewiring loop, if any, follows.
BeginAddNode(q_new, parent_node, ret) ==
    LET node == Len(nodes) + 1
        ns0 == Append(nodes, Node(q_new, parent_node, 0))
        edge == Edge(ns0, parent_node, node)
        cost == NewNodeCost(ns0[parent_node].cost, edge.cost)
    IN  /\ nodes' = [ns0 EXCEPT ![node].cost = cost]
        /\ SetActiveTree(add_edge(add_node(ActiveTree, node), ns0, parent_node, node))
        /\ call' = [new_node |-> node, parent_node |-> parent_node, edge |-> edge,
                    min_cost |-> IF options.rrt_star THEN cost ELSE None,
                    idx |-> 1, ret |-> ret]
        /\ pc' = "add_node"

\* One pass of the loop of line 298, for the node at position call.idx.
RewireStep ==
    /\ pc = "add_node"
    /\ options.rrt_star
    /\ call.idx <= Len(ActiveTree.nodes)
    /\ LET other_node == ActiveTree.nodes[call.idx]
           new_cost == nodes[other_node].cost
                       + configuration_distance(nodes[other_node].q, nodes[call.new_node].q)
       IN  IF RewireAccepted(collision_model, nodes, call, other_node, options)
           THEN /\ nodes' = Reparent(nodes, call.new_node, other_node, new_cost)
                /\ SetActiveTree(ReplaceEdge(ActiveTree, nodes, call.edge, other_node,
                                             call.new_node))
                /\ call' = [call EXCEPT !.edge = Edge(nodes, other_node, call.new_node),
                                        !.min_cost = new_cost,
                                        !.idx = @ + 1]
           ELSE /\ call' = [call EXCEPT !.idx = @ + 1]
                /\ UNCHANGED <<nodes, start_tree, goal_tree>>
    /\ UNCHANGED <<collision_model, latest_path, options, pc, q_start, q_goal, goal_found,
                   latest_start_tree_node, latest_goal_tree_node, start_tree_phase,
                   elapsed, new_node, nearest_node_in_other_tree, result>>

\* Line 321, and what plan does with the node returned: lines 156-159 after the
\* call of line 155, lines 175-181 after the call of line 172.
AddNodeReturn ==
    /\ pc = "add_node"
    /\ ~options.rrt_star \/ call.idx > Len(ActiveTree.nodes)
    /\ new_node' = call.new_node
    /\ IF call.ret = "grow"
       THEN /\ latest_start_tree_node' =
                   IF start_tree_phase THEN call.new_node ELSE latest_start_tree_node
            /\ latest_goal_tree_node' =
                   IF start_tree_phase THEN latest_goal_tree_node ELSE call.new_node
            /\ pc' = "bridge"
            /\ UNCHANGED goal_found
       ELSE /\ latest_start_tree_node' =
                   IF start_tree_phase THEN call.new_node ELSE nearest_node_in_other_tree
            /\ latest_goal_tree_node' =
                   IF start_tree_phase THEN nearest_node_in_other_tree ELSE call.new_node
            /\ goal_found' = TRUE
            /\ pc' = "flip"
    /\ call' = NoCall
    /\ UNCHANGED <<collision_model, latest_path, nodes, start_tree, goal_tree, options,
                   q_start, q_goal, start_tree_phase, elapsed,
                   nearest_node_in_other_tree, result>>

\* ------------------------------------------------------- the growth loop

\* Lines 184-185 without the switch.
NextPhaseStuck(phase, opts) == phase

\* Lines 184-185 without the test of bidirectional_rrt.
NextPhaseAlwaysSwitch(phase, opts) == ~phase

\* Lines 184-185: the phase of the next iteration.
NextPhase(phase, opts) == IF opts.bidirectional_rrt THEN ~phase ELSE phase

\* Line 154 with q_new None, had lines 184-185 been outside the branch.
NoGrowthButSwitch ==
    /\ UNCHANGED <<nodes, start_tree, goal_tree, call, pc>>
    /\ start_tree_phase' = NextPhase(start_tree_phase, options)

\* Line 154 with q_new None: the iteration ends without a new node.
NoGrowth == UNCHANGED <<nodes, start_tree, goal_tree, call, pc, start_tree_phase>>

\* Lines 144-147: the sample, from the draw of line 144 and the random state.
Sample(draw, q_random) ==
    IF draw < options.goal_biasing_probability
    THEN (IF start_tree_phase THEN q_goal ELSE q_start)
    ELSE q_random

\* A growth iteration, lines 133-155: the deadline has not passed; sample,
\* nearest node, extend_or_connect, and the call of add_node_to_tree when
\* extend_or_connect returned a configuration.  tick is what the wall clock
\* advances by until the next test of line 135.
Grow(draw, q_random, tick) ==
    /\ pc = "loop"
    /\ ~goal_found
    /\ ~TimedOut
    /\ elapsed' = elapsed + tick
    /\ LET q_sample == Sample(draw, q_random)
           nearest_node == get_nearest_node(ActiveTree, nodes, q_sample)
           q_new == extend_or_connect(collision_model, nodes[nearest_node].q, q_sample,
                                      options)
       IN  IF q_new # None
           THEN BeginAddNode(q_new, nearest_node, "grow") /\ UNCHANGED start_tree_phase
           ELSE NoGrowth
    /\ UNCHANGED <<collision_model, latest_path, options, q_start, q_goal, goal_found,
                   latest_start_tree_node, latest_goal_tree_node,
                   new_node, nearest_node_in_other_tree, result>>

\* Lines 164-171 with the test of line 169 inverted.
BridgeFreeInverted(cm, q_new, q_other, opts) ==
    SegmentInCollision(cm, q_new, q_other, opts.max_angle_step)

\* Lines 164-171: the discretized segment from the new node to the nearest node
\* of the other tree is collision-free.
BridgeFree(cm, q_new, q_other, opts) ==
    ~SegmentInCollision(cm, q_new, q_other, opts.max_angle_step)

\* Line 173 with the nearest node of the other tree as parent.
BridgeParentInOtherTree(node, nearest) == nearest

\* Line 173: the parent handed to add_node_to_tree for the bridge node.
BridgeParent(node, nearest) == node

\* Lines 163-174: the nearest node of the other tree, and the call of
\* add_node_to_tree for the bridge when the segment to it is collision-free.
Bridge ==
    /\ pc = "bridge"
    /\ LET nearest == get_nearest_node(OtherTree, nodes, nodes[new_node].q)
       IN  /\ nearest_node_in_other_tree' = nearest
           /\ IF BridgeFree(collision_model, nodes[new_node].q, nodes[nearest].q, options)
              THEN BeginAddNode(nodes[nearest].q, BridgeParent(new_node, nearest), "bridge")
              ELSE /\ pc' = "flip"
                   /\ UNCHANGED <<nodes, start_tree, goal_tree, call>>
    /\ UNCHANGED <<collision_model, latest_path, options, q_start, q_goal, goal_found,
                   latest_start_tree_node, latest_goal_tree_node, start_tree_phase,
                   elapsed, new_node, result>>

\* Lines 184-185: the switch to the other tree, reached only from the branch of
\* line 154.
Flip ==
    /\ pc = "flip"
    /\ start_tree_phase' = NextPhase(start_tree_phase, options)
    /\ pc' = "loop"
    /\ UNCHANGED <<collision_model, latest_path, nodes, start_tree, goal_tree, options,
                   q_start, q_goal, goal_found, latest_start_tree_node,
                   latest_goal_tree_node, elapsed, new_node,
                   nearest_node_in_other_tree, call, result>>

\* Lines 188-192 without the assignment of line 188.
FinalPathUnsetOnTimeout(found, ns, start_tree_final_node, goal_tree_final_node) ==
    IF found
    THEN ListPath(extract_path_from_trees(ns, start_tree_final_node, goal_tree_final_node))
    ELSE NonePath

\* Lines 188-192: the path stored and returned when the loop has ended.
FinalPath(found, ns, start_tree_final_node, goal_tree_final_node) ==
    IF found
    THEN ListPath(extract_path_from_trees(ns, start_tree_final_node, goal_tree_final_node))
    ELSE ListPath(<<>>)

\* The end of the loop (the goal was found, or the break of line 137) and lines
\* 188-193.
Finish ==
    /\ pc = "loop"
    /\ goal_found \/ TimedOut
    /\ latest_path' = FinalPath(goal_found, nodes, latest_start_tree_node,
                                latest_goal_tree_node)
    /\ result' = latest_path'
    /\ pc' = "idle"
    /\ FrameGone
    /\ UNCHANGED <<collision_model, nodes, start_tree, goal_tree, options, q_start, q_goal>>

Next ==
    \/ Reset
    \/ Plan
    \/ \E draw \in RandomDraws, q_random \in Configurations, tick \in 1..MaxTick :
           Grow(draw, q_random, tick)
    \/ RewireStep
    \/ AddNodeReturn
    \/ Bridge
    \/ Flip
    \/ Finish

Spec == Init /\ [][Next]_vars

\* Line 135 read by an iteration that goes on: the clock has advanced since
\* the iteration before.  The steps of Grow are the steps of the planner that
\* change elapsed in this way.
ClockTick ==
    /\ pc = "loop"
    /\ ~goal_found
    /\ ~TimedOut
    /\ \E tick \in 1..MaxTick : elapsed' = elapsed + tick

\* A step of the running plan call other than the start of an iteration.
PlanStep ==
    \/ RewireStep
    \/ AddNodeReturn
    \/ Bridge
    \/ Flip
    \/ Finish

\* The planner with a plan call that, once started, keeps running: plan is
\* synchronous code, and the wall clock advances.
FairSpec == Spec /\ WF_elapsed(ClockTick) /\ WF_vars(PlanStep)

\* ------------------------------------------------------------- properties

\* A plan call has been made on this planner.
Planned == q_start # None

\* The tree holds its root alone, a parentless node of cost 0 at configuration q.
RootOnly(tree, q) ==
    /\ Len(tree.nodes) = 1
    /\ tree.edges = {}
    /\ nodes[tree.nodes[1]] = Node(q, None, 0)

\* C1: when the start or the goal configuration is in collision, plan returns
\* None at once: the growth loop is never entered, the latest path stays absent,
\* and each tree holds its root alone.
C1_EndpointInCollisionNoGrowth ==
    (/\ Planned
     /\ \/ check_collisions_at_state(collision_model, q_start)
        \/ check_collisions_at_state(collision_model, q_goal))
    => /\ pc = "idle"
       /\ result = NonePath
       /\ latest_path = NonePath
       /\ nodes # <<>> => /\ Len(nodes) = 2
                          /\ RootOnly(start_tree, q_start)
                          /\ RootOnly(goal_tree, q_goal)

\* A call with a collision-free start and a goal in collision has returned.
C1_Witness ==
    /\ Planned
    /\ pc = "idle"
    /\ nodes # <<>>
    /\ ~check_collisions_at_state(collision_model, q_start)
    /\ check_collisions_at_state(collision_model, q_goal)
    /\ result = NonePath

\* C2: when start and goal are collision-free and so is the discretized segment
\* between them, plan grows no tree (both stay root-only, no growth iteration
\* runs) and returns exactly the path <<q_start, q_goal>>.
C2_DirectConnection ==
    (/\ Planned
     /\ ~check_collisions_at_state(collision_model, q_start)
     /\ ~check_collisions_at_state(collision_model, q_goal)
     /\ ~SegmentInCollision(collision_model, q_start, q_goal, options.max_angle_step))
    => /\ pc \in {"idle", "loop"}
       /\ pc = "loop" => goal_found
       /\ pc = "idle" => result = ListPath(<<q_start, q_goal>>)
       /\ nodes # <<>> => /\ Len(nodes) = 2
                          /\ RootOnly(start_tree, q_start)
                          /\ RootOnly(goal_tree, q_goal)
                          /\ pc = "idle" => latest_path = result

\* A call with identical start and goal has returned two identical elements.
C2_Witness ==
    /\ Planned
    /\ pc = "idle"
    /\ nodes # <<>>
    /\ q_start = q_goal
    /\ result = ListPath(<<q_start, q_start>>)
    /\ latest_path = result

\* C3: the discretized segment between every two consecutive elements of a
\* returned path is collision-free.
C3_ReturnedPathSegmentsFree ==
    (Planned /\ pc = "idle" /\ ~result.is_none)
    => \A i \in 1..(Len(result.q) - 1) :
           ~SegmentInCollision(collision_model, result.q[i], result.q[i + 1],
                               options.max_angle_step)

\* C4: a returned non-empty path begins with q_start and ends with q_goal.
C4_PathFromStartToGoal ==
    (Planned /\ pc = "idle" /\ ~result.is_none /\ Len(result.q) > 0)
    => /\ result.q[1] = q_start
       /\ result.q[Len(result.q)] = q_goal

\* A path has been returned whose bridge was found while the goal tree was the
\* active one: the node created last, the bridge node, is a goal-tree node.
C4_Witness ==
    /\ Planned
    /\ pc = "idle"
    /\ ~result.is_none
    /\ Len(result.q) > 2
    /\ nodes # <<>>
    /\ \E i \in 1..Len(goal_tree.nodes) : goal_tree.nodes[i] = Len(nodes)

\* C5: when the deadline has passed at the top of the loop and no bridge has been
\* found, the next step of plan is its return: no tree changes, the value
\* returned is the empty list and so is the latest path.
C5_TimeoutReturnsEmptyPath ==
    [][(pc = "loop" /\ ~goal_found /\ elapsed > options.max_planning_time)
       => /\ pc' = "idle"
          /\ result' = ListPath(<<>>)
          /\ latest_path' = ListPath(<<>>)
          /\ UNCHANGED <<nodes, start_tree, goal_tree>>]_vars

\* A call that grew a tree has timed out and returned the empty list.
C5_Witness ==
    /\ Planned
    /\ pc = "idle"
    /\ Len(nodes) > 2
    /\ result = ListPath(<<>>)
    /\ latest_path = ListPath(<<>>)

\* The nodes of a tree, as a set.
NodesOf(tree) == {tree.nodes[i] : i \in 1..Len(tree.nodes)}

\* The sum of the configuration distances of the edges on the parent chain of
\* node n, followed for at most `fuel` edges.
RECURSIVE ChainCost(_, _)
ChainCost(n, fuel) ==
    IF nodes[n].parent = None \/ fuel = 0
    THEN 0
    ELSE configuration_distance(nodes[nodes[n].parent].q, nodes[n].q)
         + ChainCost(nodes[n].parent, fuel - 1)

\* The node reached from n by following `steps` parent references, None once
\* the chain has ended.
RECURSIVE Ancestor(_, _)
Ancestor(n, steps) ==
    IF n = None \/ steps = 0 THEN n ELSE Ancestor(nodes[n].parent, steps - 1)

\* C6: in every state, also between two passes of the rewiring loop, the stored
\* cost of every node of either tree is the sum of the configuration distances
\* along its parent chain; the two roots have no parent and cost 0.
C6_CostIsChainSum ==
    /\ \A n \in NodesOf(start_tree) \cup NodesOf(goal_tree) :
           nodes[n].cost = ChainCost(n, Len(nodes))
    /\ \A tree \in {start_tree, goal_tree} :
           tree.nodes # <<>> => /\ nodes[tree.nodes[1]].parent = None
                                /\ nodes[tree.nodes[1]].cost = 0

\* The rewiring loop is under way and has re-parented the node being inserted.
C6_Witness ==
    /\ pc = "add_node"
    /\ call.idx > 1
    /\ call.idx <= Len(ActiveTree.nodes)
    /\ nodes[call.new_node].parent # call.parent_node

\* The parent references of a tree make it a rooted tree with one edge per
\* node other than the root.
RootedTree(tree) ==
    tree.nodes # <<>> =>
        LET root == tree.nodes[1]
        IN  /\ nodes[root].parent = None
            /\ \A n \in NodesOf(tree) \ {root} :
                   /\ nodes[n].parent \in NodesOf(tree)
                   /\ \E k \in 1..Len(tree.nodes) : Ancestor(n, k) = root
            /\ tree.edges = {Edge(nodes, nodes[n].parent, n) : n \in NodesOf(tree) \ {root}}
            /\ Cardinality(tree.edges) = Len(tree.nodes) - 1

\* C7: in every state each of the two trees is a rooted tree: the root has no
\* parent, the parent chain of every other node reaches the root, and the edge
\* set is exactly one edge from the parent per node other than the root.
C7_TreesStayTrees == RootedTree(start_tree) /\ RootedTree(goal_tree)

\* The rewiring loop has ended after replacing the edge of the inserted node.
C7_Witness ==
    /\ pc = "add_node"
    /\ options.rrt_star
    /\ call.idx > Len(ActiveTree.nodes)
    /\ call.edge.nodeA # call.parent_node
    /\ Len(ActiveTree.nodes) > 2

\* C8: the session holds data of the most recent plan call only.  After reset()
\* the latest path is absent and both trees are empty; otherwise each tree is
\* rooted at the configuration the most recent call was given, every node of the
\* session belongs to one of the two trees, and the latest path is absent while
\* the call runs and is what the call returned afterwards.
C8_SessionOfLatestCallOnly ==
    IF nodes = <<>>
    THEN /\ latest_path = NonePath
         /\ start_tree = EmptyGraph
         /\ goal_tree = EmptyGraph
         /\ pc = "idle"
    ELSE /\ Planned
         /\ nodes[start_tree.nodes[1]].q = q_start
         /\ nodes[goal_tree.nodes[1]].q = q_goal
         /\ \A tree \in {start_tree, goal_tree} :
                \A n \in NodesOf(tree) : nodes[n].parent = None => n = tree.nodes[1]
         /\ NodesOf(start_tree) \cup NodesOf(goal_tree) = 1..Len(nodes)
         /\ NodesOf(start_tree) \cap NodesOf(goal_tree) = {}
         /\ latest_path = IF pc = "idle" THEN result ELSE NonePath

\* reset() has been called after a plan call that returned a path.
C8_Witness ==
    /\ pc = "idle"
    /\ nodes = <<>>
    /\ ~result.is_none
    /\ Len(result.q) > 0
    /\ latest_path = NonePath

\* C10 as stated: with bidirectional_rrt, every growth iteration ends with the
\* active tree switched, whether the iteration ended after a failed extension
\* (a step from the top of the loop back to it) or at lines 184-185.
C10_FlipAfterEveryIteration ==
    [][(/\ pc \in {"loop", "flip"}
        /\ pc' = "loop"
        /\ options.bidirectional_rrt
        /\ pc = "loop" => elapsed' # elapsed)
       => start_tree_phase' = ~start_tree_phase]_vars

\* C10 amended: with bidirectional_rrt, the active tree is switched at the end of
\* every growth iteration whose extension yielded a node, whether or not the
\* bridge was found; an iteration whose extension failed leaves it as it was,
\* and no other step of the loop changes it.
C10_FlipAfterSuccessfulExtension ==
    [][(pc # "idle" /\ pc' # "idle")
       => /\ (pc = "flip" /\ options.bidirectional_rrt)
                 => start_tree_phase' = ~start_tree_phase
          /\ (pc # "flip" \/ ~options.bidirectional_rrt)
                 => start_tree_phase' = start_tree_phase
          /\ pc \in {"add_node", "bridge"} => pc' \in {"add_node", "bridge", "flip"}]_vars

\* The goal tree is the active one at the top of the loop and no bridge has been
\* found: the switch followed an iteration whose bridging failed.
C10_Witness ==
    /\ pc = "loop"
    /\ options.bidirectional_rrt
    /\ ~start_tree_phase
    /\ ~goal_found
    /\ Len(start_tree.nodes) > 1

\* The node n was inserted by the bridging call of line 172: it is the last
\* node, and the bridging call is running, or the goal was found by bridging,
\* or plan has returned a path found by bridging.
IsBridgeNode(n) ==
    /\ n = Len(nodes)
    /\ n > 2
    /\ \/ goal_found
       \/ pc = "add_node" /\ call.ret = "bridge"
       \/ pc = "idle" /\ ~result.is_none /\ result.q # <<>>

\* C11: Without bidirectional_rrt every node of a growth iteration is in the
\* start tree and the goal tree holds its root alone; with bidirectional_rrt
\* the first node grown is in the start tree and each further node grown by an
\* extension is in the tree that did not receive the previous one.
C11_ActiveTreeAlternation ==
    (Planned /\ nodes # <<>>) =>
        /\ ~options.bidirectional_rrt =>
              /\ goal_tree.nodes = <<2>> /\ goal_tree.edges = {}
              /\ \A n \in 3..Len(nodes) : n \in NodesOf(start_tree)
        /\ options.bidirectional_rrt =>
              \A n \in 3..Len(nodes) :
                  ~IsBridgeNode(n) =>
                      /\ (n % 2 = 1) => n \in NodesOf(start_tree) /\ n \notin NodesOf(goal_tree)
                      /\ (n % 2 = 0) => n \in NodesOf(goal_tree) /\ n \notin NodesOf(start_tree)

\* Reached: bidirectional growth has put one node in each tree.
C11_Witness ==
    /\ Planned
    /\ pc = "loop"
    /\ options.bidirectional_rrt
    /\ ~goal_found
    /\ Len(nodes) = 4
    /\ 3 \in NodesOf(start_tree)
    /\ 4 \in NodesOf(goal_tree)

\* C12: When plan without bidirectional_rrt returns a path found by bridging,
\* the walk of the goal tree contributes nothing: the path is the reversed
\* parent walk from the bridging node, the terminal node of the start tree, to
\* the start root.
C12_GoalWalkEmptyWhenUnidirectional ==
    (/\ Planned
     /\ pc = "idle"
     /\ ~options.bidirectional_rrt
     /\ ~result.is_none
     /\ result.q # <<>>
     /\ Len(nodes) > 2) =>
        result.q = Reverse(ParentWalk(nodes, Len(nodes)))

\* C13: In a growth iteration whose sample is at distance zero from the nearest
\* node, the increment of the extension is a defined value (it does not come
\* from a division by the zero norm), and the extension is the sample itself
\* or there is none.
C13_ZeroDistanceSampleSpecialCased ==
    (Planned /\ pc = "loop" /\ ~goal_found /\ ~TimedOut) =>
        \A draw \in RandomDraws, q_random \in Configurations :
            LET q_sample == Sample(draw, q_random)
                nearest_node == get_nearest_node(ActiveTree, nodes, q_sample)
                parent_q == nodes[nearest_node].q
            IN  configuration_distance(parent_q, q_sample) = 0 =>
                    /\ QIncrement(parent_q, q_sample, options) # NaN
                    /\ extend_or_connect(collision_model, parent_q, q_sample, options)
                           \in {q_sample, None}

\* The cost of the node new as a child of the node n.
CostThrough(n, new) ==
    nodes[n].cost + configuration_distance(nodes[n].q, nodes[new].q)

\* The positions in the tree of the nodes that can replace the parent of new:
\* neither new nor the parent it was inserted with, within max_rewire_dist,
\* the discretized segment to new collision-free.
RewireCandidates(tree, new, parent_node) ==
    {i \in 1..Len(tree.nodes) :
        LET n == tree.nodes[i]
        IN  /\ n # new
            /\ n # parent_node
            /\ configuration_distance(nodes[n].q, nodes[new].q) <= options.max_rewire_dist
            /\ ~SegmentInCollision(collision_model, nodes[new].q, nodes[n].q,
                                   options.max_angle_step)}

AllEdges(st, gt) == st.edges \cup gt.edges

\* C15: A step of add_node_to_tree (the insertion, a pass of the rewiring loop,
\* the return) leaves every node other than the new one as it was, parent and
\* cost included, and removes no edge but one incident to the new node.
C15_OnlyNewNodeRewired ==
    [][(Planned /\ (pc = "add_node" \/ pc' = "add_node")) =>
          LET new == IF pc' = "add_node" THEN call'.new_node ELSE call.new_node
          IN  /\ Len(nodes') >= Len(nodes)
              /\ \A n \in 1..Len(nodes) : n # new => nodes'[n] = nodes[n]
              /\ \A e \in AllEdges(start_tree, goal_tree) \ AllEdges(start_tree', goal_tree') :
                     e.nodeA = new \/ e.nodeB = new]_vars

\* Reached: a rewiring pass has replaced the edge and lowered the cost of the
\* new node while older nodes are in the tree.
C15_Witness ==
    /\ Planned
    /\ pc = "add_node"
    /\ options.rrt_star
    /\ call.edge.nodeA # call.parent_node
    /\ nodes[call.new_node].cost < CostThrough(call.parent_node, call.new_node)
    /\ Len(ActiveTree.nodes) >= 3

\* The k-th candidate on the way from parent_q to target in steps of
\* max_connection_dist: the target once k steps reach it.
Candidate(parent_q, target, k, opts) ==
    IF k * opts.max_connection_dist >= configuration_distance(parent_q, target)
    THEN target
    ELSE IF target > parent_q
         THEN parent_q + k * opts.max_connection_dist
         ELSE parent_q - k * opts.max_connection_dist

\* The k-th step is valid: its candidate is collision-free and so is the
\* discretized segment to it from the candidate before (the parent for k = 1).
ValidStep(cm, parent_q, target, k, opts) ==
    LET q_from == IF k = 1 THEN parent_q ELSE Candidate(parent_q, target, k - 1, opts)
        q_to == Candidate(parent_q, target, k, opts)
    IN  /\ ~check_collisions_at_state(cm, q_to)
        /\ ~SegmentInCollision(cm, q_from, q_to, opts.max_angle_step)

\* The farthest configuration reached from parent_q towards target by valid
\* steps: None without a valid first step, the first candidate without
\* rrt_connect.
Farthest(cm, parent_q, target, opts) ==
    LET dist == configuration_distance(parent_q, target)
        last == IF dist = 0 THEN 1 ELSE CeilDiv(dist, opts.max_connection_dist)
        run == {k \in 1..last : \A j \in 1..k : ValidStep(cm, parent_q, target, j, opts)}
    IN  IF ~ValidStep(cm, parent_q, target, 1, opts)
        THEN None
        ELSE IF ~opts.rrt_connect
             THEN Candidate(parent_q, target, 1, opts)
             ELSE Candidate(parent_q, target,
                            CHOOSE k \in run : \A j \in run : j <= k, opts)

\* C16: For every sample a growth iteration can draw, extend_or_connect from
\* the nearest node returns None exactly when the first step is invalid;
\* without rrt_connect the first candidate (the sample if within
\* max_connection_dist, else the point max_connection_dist towards it); with
\* rrt_connect the last candidate of the run of valid steps.
C16_ExtendOrConnectFarthestValid ==
    (Planned /\ pc = "loop" /\ ~goal_found /\ ~TimedOut) =>
        \A draw \in RandomDraws, q_random \in Configurations :
            LET q_sample == Sample(draw, q_random)
                parent_q == nodes[get_nearest_node(ActiveTree, nodes, q_sample)].q
            IN  extend_or_connect(collision_model, parent_q, q_sample, options)
                    = Farthest(collision_model, parent_q, q_sample, options)

\* Reached: a growth iteration with rrt_connect has inserted a node more than
\* one step from its parent.
C16_Witness ==
    /\ Planned
    /\ pc = "add_node"
    /\ call.ret = "grow"
    /\ call.idx = 1
    /\ options.rrt_connect
    /\ configuration_distance(nodes[call.parent_node].q, nodes[call.new_node].q)
           > options.max_connection_dist

\* The bridging check after an insertion: the nearest node of the other
\* tree is taken; if the segment to it is collision-free, add_node_to_tree is
\* called for a node of the active tree with its configuration and the new
\* node as parent, and otherwise nothing is inserted.
BridgeCheckStep ==
    pc = "bridge" =>
        LET nearest == get_nearest_node(OtherTree, nodes, nodes[new_node].q)
            bridge_node == Len(nodes) + 1
        IN  /\ nearest_node_in_other_tree' = nearest
            /\ IF ~SegmentInCollision(collision_model, nodes[new_node].q, nodes[nearest].q,
                                      options.max_angle_step)
               THEN /\ Len(nodes') = bridge_node
                    /\ nodes'[bridge_node].q = nodes[nearest].q
                    /\ nodes'[bridge_node].parent = new_node
                    /\ bridge_node \in NodesOf(ActiveTree')
                    /\ bridge_node \notin NodesOf(OtherTree')
                    /\ pc' = "add_node" /\ call'.ret = "bridge"
                    /\ call'.min_cost = IF options.rrt_star THEN nodes'[bridge_node].cost
                                        ELSE None
               ELSE /\ pc' = "flip"
                    /\ UNCHANGED <<nodes, start_tree, goal_tree, goal_found,
                                   latest_start_tree_node, latest_goal_tree_node>>

\* The return of the bridging insertion: the goal is found, and the
\* endpoints are the bridge node for the active tree and the nearest node for
\* the other tree, each in its own tree.
BridgeReturnStep ==
    (pc = "add_node" /\ call.ret = "bridge" /\ pc' # "add_node") =>
        /\ goal_found'
        /\ latest_start_tree_node' =
               IF start_tree_phase THEN call.new_node ELSE nearest_node_in_other_tree
        /\ latest_goal_tree_node' =
               IF start_tree_phase THEN nearest_node_in_other_tree ELSE call.new_node
        /\ latest_start_tree_node' \in NodesOf(start_tree')
        /\ latest_goal_tree_node' \in NodesOf(goal_tree')

\* C17: After each insertion of a growth iteration the bridging check runs as
\* BridgeCheckStep and BridgeReturnStep say; inside the loop the goal is
\* marked found by a bridging insertion only; and once it is found the loop
\* runs no further iteration: plan reaches its return.
C17_BridgeIffSegmentFree ==
    [][Planned =>
          /\ (pc = "add_node" /\ call.ret = "grow" /\ pc' # "add_node") => pc' = "bridge"
          /\ BridgeCheckStep
          /\ BridgeReturnStep
          /\ (pc \notin {"idle", "loop"} /\ ~goal_found /\ goal_found') =>
                 (pc = "add_node" /\ call.ret = "bridge")
          /\ (pc = "flip" /\ goal_found) => (pc' = "loop" /\ goal_found')
          /\ (pc = "loop" /\ goal_found) => pc' = "idle"]_vars

\* Reached: a bridging insertion from the goal tree has returned.
C17_Witness ==
    /\ Planned
    /\ pc = "flip"
    /\ goal_found
    /\ ~start_tree_phase
    /\ latest_goal_tree_node = Len(nodes)
    /\ latest_start_tree_node = nearest_node_in_other_tree

\* What extend_or_connect can return in a growth iteration from this state,
\* over the samples the iteration can draw.
ExtensionOutcomes ==
    {extend_or_connect(collision_model,
                       nodes[get_nearest_node(ActiveTree, nodes, Sample(draw, q_random))].q,
                       Sample(draw, q_random), options) :
         draw \in RandomDraws, q_random \in Configurations}

\* C18: A growth iteration either inserts a node with a configuration that
\* extend_or_connect returned, or extend_or_connect returned None and the
\* iteration leaves the nodes (parents and costs included), the node and edge
\* sets of both trees, the latest nodes and the phase as they were, and the
\* loop goes on.
C18_FailedExtensionChangesNothing ==
    [][(Planned /\ pc = "loop" /\ ~goal_found /\ ~TimedOut) =>
          IF nodes' = nodes
          THEN /\ None \in ExtensionOutcomes
               /\ UNCHANGED <<start_tree, goal_tree, latest_start_tree_node,
                              latest_goal_tree_node, start_tree_phase, goal_found>>
               /\ pc' = "loop"
          ELSE /\ Len(nodes') = Len(nodes) + 1
               /\ nodes'[Len(nodes')].q \in ExtensionOutcomes \ {None}]_vars

\* Reached: the first growth iteration of a call is over and has inserted
\* nothing.
C18_Witness ==
    /\ Planned
    /\ pc = "loop"
    /\ ~goal_found
    /\ elapsed > 0
    /\ Len(nodes) = 2
    /\ options.bidirectional_rrt

\* C19: No node is in both trees, and the parent of every node of a tree is a
\* node of that tree (the roots have none); the edges of a tree join nodes of
\* that tree.
C19_ParentInSameTree ==
    /\ NodesOf(start_tree) \cap NodesOf(goal_tree) = {}
    /\ \A tree \in {start_tree, goal_tree} :
           /\ \A n \in NodesOf(tree) :
                  nodes[n].parent # None => nodes[n].parent \in NodesOf(tree)
           /\ \A e \in tree.edges :
                  e.nodeA \in NodesOf(tree) /\ e.nodeB \in NodesOf(tree)

\* Reached: with bidirectional_rrt and rrt_star, both trees have grown and a
\* bridging node has been inserted and rewiring has run for it.
C19_Witness ==
    /\ Planned
    /\ pc = "flip"
    /\ goal_found
    /\ options.rrt_star
    /\ Len(start_tree.nodes) > 1
    /\ Len(goal_tree.nodes) > 1
    /\ nodes[Len(nodes)].q = nodes[nearest_node_in_other_tree].q

\* The steps by which plan returns from its loop, and those by which it does
\* not: at the top of an iteration it returns if the goal is found, or else if
\* the elapsed time exceeds max_planning_time (then with the empty path), and
\* otherwise goes on; inside an iteration it does not return and the deadline
\* is not looked at.
ReturnOnlyAtLoopTop ==
    /\ (pc = "loop" /\ goal_found) => (pc' = "idle" /\ ~result'.is_none /\ result'.q # <<>>)
    /\ (pc = "loop" /\ ~goal_found /\ elapsed > options.max_planning_time) =>
           (pc' = "idle" /\ result' = ListPath(<<>>))
    /\ (pc = "loop" /\ ~goal_found /\ ~(elapsed > options.max_planning_time)) =>
           (pc' # "idle" /\ elapsed' > elapsed)
    /\ pc \in {"add_node", "bridge", "flip"} => (pc' # "idle" /\ elapsed' = elapsed)

\* C20: Every plan call that is running eventually returns, and it returns
\* only as ReturnOnlyAtLoopTop says.
C20_PlanEventuallyReturns ==
    /\ (pc # "idle") ~> (pc = "idle")
    /\ [][ReturnOnlyAtLoopTop]_vars

\* Reached: the deadline has passed during an iteration that inserted a node,
\* and the goal is not found.
C20_Witness ==
    /\ Planned
    /\ pc = "loop"
    /\ ~goal_found
    /\ elapsed > options.max_planning_time
    /\ Len(nodes) > 2

\* More passes than any loop of extend_or_connect takes that moves towards a
\* target in 0..QMax by a positive whole step.
PassLimit == QMax + 2

\* C21: For every sample a growth iteration can draw at non-zero distance from
\* the nearest node, the loop of extend_or_connect ends, after at most
\* ceil(distance / max_connection_dist) passes, and every accepted pass that
\* is not the final one brings q_cur nearer to the sample by
\* max_connection_dist; what the loop returns is the last accepted q_extend.
C21_ExtendOrConnectTerminates ==
    (Planned /\ pc = "loop" /\ ~goal_found /\ ~TimedOut) =>
        \A draw \in RandomDraws, q_random \in Configurations :
            LET q_sample == Sample(draw, q_random)
                parent_q == nodes[get_nearest_node(ActiveTree, nodes, q_sample)].q
                dist == configuration_distance(parent_q, q_sample)
                passes == ExtendPasses(collision_model, parent_q, q_sample,
                                       QIncrement(parent_q, q_sample, options),
                                       options, PassLimit)
                acc == {i \in 1..Len(passes) : passes[i].accepted}
            IN  (dist # 0 /\ options.max_connection_dist > 0) =>
                    /\ passes[Len(passes)].terminated
                    /\ Len(passes) <= CeilDiv(dist, options.max_connection_dist)
                    /\ \A i \in acc :
                           ~passes[i].final =>
                               configuration_distance(passes[i].q_extend, q_sample)
                                   = configuration_distance(passes[i].q_cur, q_sample)
                                         - options.max_connection_dist
                    /\ extend_or_connect(collision_model, parent_q, q_sample, options)
                           = IF acc = {} THEN None
                             ELSE passes[CHOOSE i \in acc : \A j \in acc : j <= i].q_extend

\* Reached: with rrt_connect a growth iteration has inserted a node that took
\* the loop of extend_or_connect three passes.
C21_Witness ==
    /\ Planned
    /\ pc = "add_node"
    /\ call.ret = "grow"
    /\ call.idx = 1
    /\ options.rrt_connect
    /\ configuration_distance(nodes[call.parent_node].q, nodes[call.new_node].q)
           > 2 * options.max_connection_dist

\* The number of parent references from the node n to the root of its tree.
RECURSIVE Depth(_)
Depth(n) == IF nodes[n].parent = None THEN 0 ELSE 1 + Depth(nodes[n].parent)

\* C22: When plan returns after the goal was found by bridging, the two
\* endpoints carry the same configuration, that of the bridging node, which is
\* one of them; the path returned has (depth of the start endpoint + 1) +
\* (depth of the goal endpoint + 1) configurations, and that configuration is
\* at the last position of the start walk and at the next one.
C22_BridgeConfigurationTwice ==
    [][(Planned /\ pc = "loop" /\ goal_found /\ Len(nodes) > 2 /\ pc' = "idle") =>
          LET s == latest_start_tree_node
              g == latest_goal_tree_node
              k == Depth(s) + 1
          IN  /\ Len(nodes) \in {s, g}
              /\ s \in NodesOf(start_tree) /\ g \in NodesOf(goal_tree)
              /\ nodes[s].q = nodes[g].q
              /\ ~result'.is_none
              /\ Len(result'.q) = (Depth(s) + 1) + (Depth(g) + 1)
              /\ result'.q[k] = nodes[Len(nodes)].q
              /\ result'.q[k + 1] = nodes[Len(nodes)].q]_vars

\* Reached: plan with bidirectional_rrt has returned a path found by a bridge
\* inserted into the grown goal tree, with the same configuration at two
\* consecutive positions before the walk of the goal tree goes on.
C22_Witness ==
    /\ Planned
    /\ pc = "idle"
    /\ options.bidirectional_rrt
    /\ ~result.is_none
    /\ Len(result.q) >= 4
    /\ Len(goal_tree.nodes) > 2
    /\ \E k \in 1..(Len(result.q) - 2) : result.q[k] = result.q[k + 1]

====
